---- MODULE Spec2Model ----
(***************************************************************************)
(* Model of streamlit_app.py: the packaging-unit capacity calculator       *)
(* (calculate_capacity), the sensitivity sweep                             *)
(* (create_sensitivity_analysis), the break-even sweep                     *)
(* (create_break_even_analysis) and the top-level script, which Streamlit  *)
(* re-runs from top to bottom on every widget change, with the scenario    *)
(* list kept in st.session_state between runs.                             *)
(*                                                                         *)
(* Numbers.  Python's int / int and float arithmetic is modelled by exact  *)
(* rationals [kind |-> "num", n, d] in lowest terms with d > 0.  For the   *)
(* magnitudes the model explores (all products far below 2^53) the         *)
(* correctly rounded double quotient lies strictly between the same two    *)
(* integers as the exact quotient, so math.ceil of it is the exact         *)
(* ceiling.  The string 'N/A' is the value NA.                             *)
(***************************************************************************)
EXTENDS Integers, Sequences, FiniteSets, TLC

(***************************************************************************)
(* Bounds of the exploration.                                              *)
(***************************************************************************)
MaxScenarios == 2
MaxLen == 2
MaxLot == 6
MaxPPU == 4

(***************************************************************************)
(* Values.                                                                 *)
(***************************************************************************)
Abs(x) == IF x < 0 THEN -x ELSE x

RECURSIVE GCD(_, _)
GCD(a, b) == IF b = 0 THEN a ELSE GCD(b, a % b)

\* a number n/d, d # 0, in lowest terms with a positive denominator
Rat(n, d) ==
    LET s == IF d < 0 THEN -1 ELSE 1
        g == GCD(Abs(n), Abs(d))
    IN  [kind |-> "num", n |-> (s * n) \div g, d |-> (s * d) \div g]

Num(x) == Rat(x, 1)

\* the string 'N/A'
NA == [kind |-> "N/A", n |-> 0, d |-> 0]

\* Python  a / b  for b # 0
truediv(a, b) == Rat(a.n * b.d, a.d * b.n)

\* Python  a * b
mul(a, b) == Rat(a.n * b.n, a.d * b.d)

ceil_floor(r) == r.n \div r.d
\* math.ceil
ceil(r) == -((-(r.n)) \div r.d)

\* int(x): truncation towards zero
py_int(r) == IF r.n >= 0 THEN r.n \div r.d ELSE -((-(r.n)) \div r.d)

\* list(range(start, stop, step)) for step # 0
py_range(start, stop, step) ==
    LET len == IF step > 0
               THEN (IF stop > start THEN (stop - start + step - 1) \div step ELSE 0)
               ELSE (IF start > stop THEN (start - stop - step - 1) \div (-step) ELSE 0)
    IN  [k \in 1..len |-> start + (k - 1) * step]

(***************************************************************************)
(* Exceptions.  A call either returns a value or raises.                   *)
(***************************************************************************)
NoErr == [type |-> "none", info |-> ""]
ZeroDivisionError == [type |-> "ZeroDivisionError", info |-> "division by zero"]
ValueError == [type |-> "ValueError", info |-> "range() arg 3 must not be zero"]

\* the absence of a result record
NoResult == << >>

Raise(e) == [raised |-> e, value |-> NoResult]
Return(v) == [raised |-> NoErr, value |-> v]

(***************************************************************************)
(* calculate_capacity, line by line.                                       *)
(***************************************************************************)
total_units_one_lot(luf_need, per_lot) == luf_need + per_lot
\* luf_need_of_pu + (pu_per_lot * 2)
total_units(luf_need, per_lot) == luf_need + (per_lot * 2)

break_even_times(standard_cost, alt_price) == mul(standard_cost, alt_price)
\* standard_cost / alt_price
break_even(standard_cost, alt_price) == truediv(standard_cost, alt_price)

always_value(use_alternative, v) == v
\* v if use_alternative else 'N/A'
value_or_na(use_alternative, v) == IF use_alternative THEN v ELSE NA

\* the dictionary returned at the end of calculate_capacity; v holds the
\* function's local variables
result_record(p, v) ==
    ("Lot size" :> Num(p.lot_size))
 @@ ("Parts per Standard PU" :> Num(p.parts_per_pu))
 @@ ("Parts per Alternative PU" :> value_or_na(p.use_alternative, Num(p.alt_parts_per_pu)))
 @@ ("Working days per week" :> Num(p.working_days_per_week))
 @@ ("LUF days" :> Num(p.luf_days))
 @@ ("Standard PU per lot" :> Num(v.pu_per_lot))
 @@ ("Daily Production Rate" :> v.daily_production_rate)
 @@ ("Daily Standard PU need per LUF" :> Num(v.daily_pu_need_per_luf))
 @@ ("Standard LUF need of PU" :> Num(v.luf_need_of_pu))
 @@ ("Total Standard Packaging Units" :> Num(v.total_packaging_units))
 @@ ("Total Alternative Packaging Units" :>
        value_or_na(p.use_alternative, Num(v.alt_total_packaging_units)))
 @@ ("Standard Packaging Cost" :> v.standard_cost)
 @@ ("Alternative Packaging Cost" :> value_or_na(p.use_alternative, v.alt_cost))
 @@ ("Break-even Point (units)" :> value_or_na(p.use_alternative, v.break_even_point))

calculate_capacity(p) ==
    IF p.parts_per_pu = 0 THEN Raise(ZeroDivisionError)
    ELSE IF p.working_days_per_week = 0 THEN Raise(ZeroDivisionError)
    ELSE
    LET pu_per_lot == ceil(truediv(Num(p.lot_size), Num(p.parts_per_pu)))
        daily_production_rate == truediv(Num(p.lot_size), Num(p.working_days_per_week))
        daily_pu_need_per_luf == ceil(truediv(daily_production_rate, Num(p.parts_per_pu)))
        luf_need_of_pu == daily_pu_need_per_luf * p.luf_days
        total_packaging_units == total_units(luf_need_of_pu, pu_per_lot)
        standard == [pu_per_lot |-> pu_per_lot,
                     daily_production_rate |-> daily_production_rate,
                     daily_pu_need_per_luf |-> daily_pu_need_per_luf,
                     luf_need_of_pu |-> luf_need_of_pu,
                     total_packaging_units |-> total_packaging_units]
    IN
    IF p.use_alternative
    THEN IF p.alt_parts_per_pu = 0 THEN Raise(ZeroDivisionError)
         ELSE
         LET alt_pu_per_lot == ceil(truediv(Num(p.lot_size), Num(p.alt_parts_per_pu)))
             alt_daily_pu_need_per_luf ==
                 ceil(truediv(daily_production_rate, Num(p.alt_parts_per_pu)))
             alt_luf_need_of_pu == alt_daily_pu_need_per_luf * p.luf_days
             alt_total_packaging_units == total_units(alt_luf_need_of_pu, alt_pu_per_lot)
             standard_cost == mul(Num(total_packaging_units), p.standard_price)
             alt_cost == mul(Num(alt_total_packaging_units), p.alt_price)
         IN  IF p.alt_price.n = 0 THEN Raise(ZeroDivisionError)
             ELSE Return(result_record(p, standard @@
                     [alt_total_packaging_units |-> alt_total_packaging_units,
                      standard_cost |-> standard_cost,
                      alt_cost |-> alt_cost,
                      break_even_point |-> break_even(standard_cost, p.alt_price)]))
    ELSE Return(result_record(p, standard @@
            [alt_total_packaging_units |-> 0,
             standard_cost |-> mul(Num(total_packaging_units), p.standard_price),
             alt_cost |-> Num(0),
             break_even_point |-> Num(0)]))

(***************************************************************************)
(* The two sweeps.                                                         *)
(***************************************************************************)
alias_and_set(bp, field, value) ==
    [base |-> [bp EXCEPT ![field] = value], params |-> [bp EXCEPT ![field] = value]]
\* params = base_params.copy(); params[field] = value
copy_and_set(bp, field, value) ==
    [base |-> bp, params |-> [bp EXCEPT ![field] = value]]

RECURSIVE sensitivity_loop(_, _, _, _, _)
sensitivity_loop(bp, variable_param, range_vals, i, acc) ==
    IF i > Len(range_vals)
    THEN [base_params |-> bp, results |-> acc, raised |-> NoErr]
    ELSE LET it == copy_and_set(bp, variable_param, range_vals[i])
             capacity == calculate_capacity(it.params)
         IN  IF capacity.raised # NoErr
             THEN [base_params |-> it.base, results |-> acc, raised |-> capacity.raised]
             ELSE sensitivity_loop(it.base, variable_param, range_vals, i + 1,
                      Append(acc, capacity.value["Total Standard Packaging Units"]))

sweep_from_second(bp, variable_param, range_vals) ==
    sensitivity_loop(bp, variable_param, range_vals, 2, << >>)
\* the list `results` built by the loop, the exception raised, and the
\* caller's base_params object after the call
create_sensitivity_analysis(bp, variable_param, range_vals) ==
    sensitivity_loop(bp, variable_param, range_vals, 1, << >>)

RECURSIVE break_even_loop(_, _, _, _, _)
break_even_loop(bp, capacities, i, sc, ac) ==
    IF i > Len(capacities)
    THEN [base_params |-> bp, standard_costs |-> sc, alt_costs |-> ac, raised |-> NoErr]
    ELSE LET it == copy_and_set(bp, "lot_size", capacities[i])
             result == calculate_capacity(it.params)
         IN  IF result.raised # NoErr
             THEN [base_params |-> it.base, standard_costs |-> sc, alt_costs |-> ac,
                   raised |-> result.raised]
             ELSE break_even_loop(it.base, capacities, i + 1,
                      Append(sc, result.value["Standard Packaging Cost"]),
                      Append(ac, result.value["Alternative Packaging Cost"]))

create_break_even_analysis(bp) ==
    LET start == py_int(Rat(bp.lot_size, 2))
        stop == py_int(Rat(3 * bp.lot_size, 2))
        step == py_int(Rat(bp.lot_size, 10))
    IN  IF step = 0
        THEN [base_params |-> bp, standard_costs |-> << >>, alt_costs |-> << >>,
              raised |-> ValueError]
        ELSE break_even_loop(bp, py_range(start, stop, step), 1, << >>, << >>)

(***************************************************************************)
(* The scenario list.                                                      *)
(***************************************************************************)
append_unless_present(list, r) ==
    IF \E i \in 1..Len(list) : list[i] = r THEN list ELSE Append(list, r)
\* st.session_state.scenarios.append(r)
scenarios_append(list, r) == Append(list, r)

(***************************************************************************)
(* Control flow of one run of the script: an uncaught exception ends the   *)
(* run; otherwise the next statement runs.                                 *)
(***************************************************************************)
continue_regardless(raised, nxt) == nxt
next_pc(raised, nxt) == IF raised = NoErr THEN nxt ELSE "idle"

(***************************************************************************)
(* State.                                                                  *)
(***************************************************************************)
VARIABLES
    base_params,       \* the dict built from the sidebar widgets
    results,           \* module-level `results`
    param_to_analyze,  \* selectbox
    range_min,         \* number_input
    range_max,         \* number_input
    range_step,        \* number_input
    range_values,      \* list(range(...))
    button,            \* the "Szenario hinzufuegen" click that caused this run
    sweep_results,     \* `results` inside create_sensitivity_analysis
    standard_costs,    \* inside create_break_even_analysis
    alt_costs,         \* inside create_break_even_analysis
    scenarios,         \* st.session_state.scenarios
    pc,                \* the statement the script is at
    err,               \* the exception that ended the run, or NoErr
    steps,             \* history: the steps executed in this run, in order
    scenarios_before,  \* history: the scenario list when this run started
    added              \* history: base_params at each executed append

vars == <<base_params, results, param_to_analyze, range_min, range_max, range_step,
          range_values, button, sweep_results, standard_costs, alt_costs,
          scenarios, pc, err, steps, scenarios_before, added>>

Params(lot, ppu, wd, luf, ua, appu, sp, ap) ==
    [lot_size |-> lot, parts_per_pu |-> ppu, working_days_per_week |-> wd,
     luf_days |-> luf, use_alternative |-> ua, alt_parts_per_pu |-> appu,
     standard_price |-> sp, alt_price |-> ap]

\* the widgets' default values
DefaultParams == Params(1000, 10, 5, 5, FALSE, 15, Rat(10, 1), Rat(8, 1))

SweepFields == {"lot_size", "parts_per_pu", "working_days_per_week", "luf_days"}

(***************************************************************************)
(* The script, statement by statement.                                     *)
(***************************************************************************)
\* widget values the user may have set when a run starts
WidgetParams ==
    {Params(lot, 10, 5, 5, ua, 15, Rat(10, 1), Rat(8, 1)) :
        lot \in {100, 1000}, ua \in BOOLEAN}

Init ==
    /\ base_params = DefaultParams
    /\ results = NoResult
    /\ param_to_analyze = "lot_size"
    /\ range_min = 1
    /\ range_max = 100
    /\ range_step = 1
    /\ range_values = << >>
    /\ button = FALSE
    /\ sweep_results = << >>
    /\ standard_costs = << >>
    /\ alt_costs = << >>
    /\ scenarios = << >>
    /\ pc = "idle"
    /\ err = NoErr
    /\ steps = << >>
    /\ scenarios_before = << >>
    /\ added = << >>

\* a widget change or a button click starts a run: the widgets are read
Rerun ==
    /\ pc = "idle"
    /\ \E p \in WidgetParams : base_params' = p
    /\ param_to_analyze' \in SweepFields
    /\ range_min' \in {0, 1, 2}
    /\ range_max' = 1
    /\ range_step' \in {0, 1}
    /\ button' \in IF Len(scenarios) < MaxScenarios THEN BOOLEAN ELSE {FALSE}
    /\ results' = NoResult
    /\ range_values' = << >>
    /\ sweep_results' = << >>
    /\ standard_costs' = << >>
    /\ alt_costs' = << >>
    /\ pc' = "compute"
    /\ err' = NoErr
    /\ steps' = << >>
    /\ scenarios_before' = scenarios
    /\ UNCHANGED <<scenarios, added>>

\* results = calculate_capacity(**base_params)
Compute ==
    /\ pc = "compute"
    /\ LET r == calculate_capacity(base_params)
       IN  /\ results' = r.value
           /\ err' = r.raised
           /\ pc' = next_pc(r.raised, "range")
    /\ steps' = Append(steps, "compute")
    /\ UNCHANGED <<base_params, param_to_analyze, range_min, range_max, range_step,
                   range_values, button, sweep_results, standard_costs, alt_costs,
                   scenarios, scenarios_before, added>>

\* range_values = list(range(range_min, range_max + 1, range_step))
RangeValues ==
    /\ pc = "range"
    /\ IF range_step = 0
       THEN /\ err' = ValueError
            /\ pc' = next_pc(ValueError, "sensitivity")
            /\ UNCHANGED range_values
       ELSE /\ range_values' = py_range(range_min, range_max + 1, range_step)
            /\ pc' = "sensitivity"
            /\ UNCHANGED err
    /\ steps' = Append(steps, "range")
    /\ UNCHANGED <<base_params, results, param_to_analyze, range_min, range_max,
                   range_step, button, sweep_results, standard_costs, alt_costs,
                   scenarios, scenarios_before, added>>

\* create_sensitivity_analysis(base_params, param_to_analyze, range_values)
Sensitivity ==
    /\ pc = "sensitivity"
    /\ LET s == create_sensitivity_analysis(base_params, param_to_analyze, range_values)
       IN  /\ sweep_results' = s.results
           /\ base_params' = s.base_params
           /\ err' = IF s.raised = NoErr THEN err ELSE s.raised
           /\ pc' = next_pc(s.raised, "break_even")
    /\ steps' = Append(steps, "sensitivity")
    /\ UNCHANGED <<results, param_to_analyze, range_min, range_max, range_step,
                   range_values, button, standard_costs, alt_costs,
                   scenarios, scenarios_before, added>>

\* if use_alternative: create_break_even_analysis(base_params)
BreakEven ==
    /\ pc = "break_even"
    /\ IF base_params.use_alternative
       THEN LET b == create_break_even_analysis(base_params)
            IN  /\ standard_costs' = b.standard_costs
                /\ alt_costs' = b.alt_costs
                /\ base_params' = b.base_params
                /\ err' = IF b.raised = NoErr THEN err ELSE b.raised
                /\ pc' = next_pc(b.raised, "scenario")
                /\ steps' = Append(steps, "break_even")
       ELSE /\ pc' = "scenario"
            /\ UNCHANGED <<standard_costs, alt_costs, base_params, err, steps>>
    /\ UNCHANGED <<results, param_to_analyze, range_min, range_max, range_step,
                   range_values, button, sweep_results,
                   scenarios, scenarios_before, added>>

\* if st.button(...): st.session_state.scenarios.append(calculate_capacity(**base_params))
Scenario ==
    /\ pc = "scenario"
    /\ IF button
       THEN LET r == calculate_capacity(base_params)
            IN  /\ scenarios' = IF r.raised = NoErr
                                THEN scenarios_append(scenarios, r.value)
                                ELSE scenarios
                /\ added' = IF r.raised = NoErr THEN Append(added, base_params) ELSE added
                /\ err' = IF r.raised = NoErr THEN err ELSE r.raised
                /\ pc' = next_pc(r.raised, "export")
                /\ steps' = Append(steps, "scenario")
       ELSE /\ pc' = "export"
            /\ UNCHANGED <<scenarios, added, err, steps>>
    /\ UNCHANGED <<base_params, results, param_to_analyze, range_min, range_max,
                   range_step, range_values, button, sweep_results, standard_costs,
                   alt_costs, scenarios_before>>

\* excel_report = create_excel_report(results); st.download_button(...)
\* create_excel_report is not defined in the source file; the export is a
\* rendering of `results` that changes no state of the calculator.
ExcelReport ==
    /\ pc = "export"
    /\ pc' = "idle"
    /\ UNCHANGED <<base_params, results, param_to_analyze, range_min, range_max,
                   range_step, range_values, button, sweep_results, standard_costs,
                   alt_costs, scenarios, err, steps, scenarios_before, added>>

Next == Rerun \/ Compute \/ RangeValues \/ Sensitivity \/ BreakEven \/ Scenario \/ ExcelReport

Spec == Init /\ [][Next]_vars

(***************************************************************************)
(* calculate_capacity called directly on arbitrary arguments.              *)
(***************************************************************************)
CalcArgs ==
    {Params(lot, ppu, wd, luf, ua, appu, sp, ap) :
        lot \in (1..MaxLot) \cup {1000},
        ppu \in (-1..MaxPPU) \cup {10},
        wd \in {-1, 0, 1, 2, 5, 7},
        luf \in {1, 5},
        ua \in BOOLEAN,
        appu \in {-1, 0, 3, 15},
        sp \in {Rat(1, 10), Rat(10, 1)},
        ap \in {Rat(-1, 10), Rat(0, 1), Rat(1, 10), Rat(8, 1)}}

InitCalc ==
    /\ base_params \in CalcArgs
    /\ results = NoResult
    /\ param_to_analyze = "lot_size"
    /\ range_min = 1
    /\ range_max = 100
    /\ range_step = 1
    /\ range_values = << >>
    /\ button = FALSE
    /\ sweep_results = << >>
    /\ standard_costs = << >>
    /\ alt_costs = << >>
    /\ scenarios = << >>
    /\ pc = "compute"
    /\ err = NoErr
    /\ steps = << >>
    /\ scenarios_before = << >>
    /\ added = << >>

NextCalc == Compute

SpecCalc == InitCalc /\ [][NextCalc]_vars

(***************************************************************************)
(* The sweeps called directly on arbitrary base parameters and values.     *)
(***************************************************************************)
SweepValues == {-1, 0, 1, 3}

SweepSeqs == UNION {[1..n -> SweepValues] : n \in 0..MaxLen}

SweepBases ==
    {Params(lot, ppu, 5, 5, ua, 15, Rat(10, 1), Rat(8, 1)) :
        lot \in {5, 20, 100}, ppu \in {3, 10}, ua \in BOOLEAN}

InitSweep ==
    /\ base_params \in SweepBases
    /\ results = NoResult
    /\ param_to_analyze \in SweepFields
    /\ range_min = 1
    /\ range_max = 100
    /\ range_step = 1
    /\ range_values \in SweepSeqs
    /\ button = FALSE
    /\ sweep_results = << >>
    /\ standard_costs = << >>
    /\ alt_costs = << >>
    /\ scenarios = << >>
    /\ pc = "sensitivity"
    /\ err = NoErr
    /\ steps = << >>
    /\ scenarios_before = << >>
    /\ added = << >>

NextSweep == Sensitivity \/ BreakEven

SpecSweep == InitSweep /\ [][NextSweep]_vars

(***************************************************************************)
(* Properties.                                                             *)
(***************************************************************************)
\* the standard-path inputs are positive (working days within a week)
ValidStandard(p) ==
    /\ p.lot_size > 0
    /\ p.parts_per_pu > 0
    /\ p.working_days_per_week \in 1..7
    /\ p.luf_days > 0
    /\ p.standard_price.n > 0

\* a valid parameter record; the alternative fields count when they are used
Valid(p) ==
    /\ ValidStandard(p)
    /\ p.use_alternative => (p.alt_parts_per_pu > 0 /\ p.alt_price.n > 0)

\* the fields whose value is zero or negative, among the four divisors
OffendingFields(p) ==
    {f \in {"parts_per_pu", "working_days_per_week", "alt_parts_per_pu"} : p[f] <= 0}
    \cup (IF p.alt_price.n <= 0 THEN {"alt_price"} ELSE {})

\* calculate_capacity has been called on base_params and has returned or raised
Called == steps # << >> /\ steps[1] = "compute"

IsPrefix(s, t) == Len(s) <= Len(t) /\ \A i \in 1..Len(s) : s[i] = t[i]

\* C1: a call of calculate_capacity with parts_per_pu, working_days_per_week,
\* alt_parts_per_pu or alt_price zero or negative is rejected with an
\* InvalidParameter error naming an offending field, and no result record is
\* produced; parts_per_pu = 0 names parts_per_pu.
C1_InvalidParameterRejected ==
    (Called /\ OffendingFields(base_params) # {}) =>
        /\ err.type = "InvalidParameter"
        /\ err.info \in OffendingFields(base_params)
        /\ base_params.parts_per_pu = 0 => err.info = "parts_per_pu"
        /\ results = NoResult

\* C2 (as stated): with use_alternative false every alternative-path field,
\* standard_cost included, and the break-even point are the marker 'N/A'.
C2_AllAlternativeFieldsNA ==
    (Called /\ Valid(base_params) /\ ~base_params.use_alternative) =>
        /\ results # NoResult
        /\ results["Parts per Alternative PU"] = NA
        /\ results["Total Alternative Packaging Units"] = NA
        /\ results["Standard Packaging Cost"] = NA
        /\ results["Alternative Packaging Cost"] = NA
        /\ results["Break-even Point (units)"] = NA

\* C2 (amended): with use_alternative false the alternative parts per PU, the
\* alternative total, the alternative cost and the break-even point are the
\* marker 'N/A'; the standard cost is the number total_packaging_units *
\* standard_price.
C2_AlternativeFieldsNAExceptStandardCost ==
    (Called /\ Valid(base_params) /\ ~base_params.use_alternative) =>
        /\ results # NoResult
        /\ results["Parts per Alternative PU"] = NA
        /\ results["Total Alternative Packaging Units"] = NA
        /\ results["Alternative Packaging Cost"] = NA
        /\ results["Break-even Point (units)"] = NA
        /\ results["Standard Packaging Cost"] =
              mul(results["Total Standard Packaging Units"], base_params.standard_price)
        /\ results["Standard Packaging Cost"].kind = "num"

C2_Witness ==
    /\ Called
    /\ Valid(base_params)
    /\ ~base_params.use_alternative
    /\ results # NoResult
    /\ results["Break-even Point (units)"] = NA
    /\ results["Standard Packaging Cost"] = Num(30)

\* C3: for positive lot_size and parts_per_pu the returned pu_per_lot is the
\* exact ceiling of lot_size / parts_per_pu:
\* pu_per_lot * parts_per_pu >= lot_size > (pu_per_lot - 1) * parts_per_pu.
C3_CeilingDivision ==
    /\ (Called /\ Valid(base_params)) => results # NoResult
    /\ (Called /\ results # NoResult
          /\ base_params.lot_size > 0 /\ base_params.parts_per_pu > 0) =>
        LET pu_per_lot == results["Standard PU per lot"]
        IN  /\ pu_per_lot.kind = "num"
            /\ pu_per_lot.d = 1
            /\ pu_per_lot.n * base_params.parts_per_pu >= base_params.lot_size
            /\ (pu_per_lot.n - 1) * base_params.parts_per_pu < base_params.lot_size

C3_Witness ==
    /\ Called
    /\ Valid(base_params)
    /\ base_params.lot_size = 5
    /\ base_params.parts_per_pu = 3
    /\ results # NoResult
    /\ results["Standard PU per lot"] = Num(2)

\* C4: for every valid input, with or without the alternative,
\* total_packaging_units = luf_need_of_pu + 2 * pu_per_lot, where
\* luf_need_of_pu = daily_pu_need_per_luf * luf_days and daily_pu_need_per_luf
\* is the ceiling of lot_size / (working_days_per_week * parts_per_pu).
C4_TotalPackagingUnits ==
    (Called /\ Valid(base_params)) =>
        /\ results # NoResult
        /\ LET total == results["Total Standard Packaging Units"]
               luf_need == results["Standard LUF need of PU"]
               daily == results["Daily Standard PU need per LUF"]
               per_lot == results["Standard PU per lot"]
               w == base_params.working_days_per_week * base_params.parts_per_pu
           IN  /\ total.d = 1 /\ luf_need.d = 1 /\ daily.d = 1 /\ per_lot.d = 1
               /\ total.n = luf_need.n + 2 * per_lot.n
               /\ luf_need.n = daily.n * base_params.luf_days
               /\ daily.n * w >= base_params.lot_size
               /\ (daily.n - 1) * w < base_params.lot_size

C4_Witness ==
    /\ Called
    /\ Valid(base_params)
    /\ base_params.use_alternative
    /\ base_params.lot_size = 5
    /\ base_params.parts_per_pu = 2
    /\ base_params.working_days_per_week = 2
    /\ base_params.luf_days = 5
    /\ results # NoResult
    /\ results["Total Standard Packaging Units"] = Num(16)

\* C5: for every valid input with use_alternative true (alt_price > 0),
\* break_even_point = (total_packaging_units * standard_price) / alt_price,
\* i.e. break_even_point * alt_price = standard_cost, whatever the
\* alternative parts per PU; lot_size 1000, parts_per_pu 10, 5 working days,
\* 5 LUF days, prices 10 and 8 give standard_cost 3000 and break-even 375.
C5_BreakEvenPoint ==
    (Called /\ Valid(base_params) /\ base_params.use_alternative) =>
        /\ results # NoResult
        /\ LET total == results["Total Standard Packaging Units"]
               bep == results["Break-even Point (units)"]
               sp == base_params.standard_price
               ap == base_params.alt_price
           IN  /\ bep.kind = "num"
               /\ bep.n * ap.n * sp.d = total.n * sp.n * bep.d * ap.d
               /\ mul(bep, ap) = results["Standard Packaging Cost"]
               /\ results["Standard Packaging Cost"] = mul(total, sp)
        /\ (/\ base_params.lot_size = 1000
            /\ base_params.parts_per_pu = 10
            /\ base_params.working_days_per_week = 5
            /\ base_params.luf_days = 5
            /\ base_params.standard_price = Num(10)
            /\ base_params.alt_price = Num(8)) =>
               /\ results["Standard Packaging Cost"] = Num(3000)
               /\ results["Break-even Point (units)"] = Num(375)

C5_Witness ==
    /\ Called
    /\ base_params = Params(1000, 10, 5, 5, TRUE, 15, Num(10), Num(8))
    /\ results # NoResult
    /\ results["Break-even Point (units)"] = Num(375)
    /\ results["Total Alternative Packaging Units"] = Num(204)

\* C6: the result record carries a safety-stock field equal to
\* pu_per_lot * 2; for lot_size 1000, parts_per_pu 10, 5 working days and
\* 5 LUF days it reports 100, 200, 20, 100, safety stock 200 and total 300.
C6_SafetyStockField ==
    (Called /\ results # NoResult) =>
        /\ "Safety Stock PU" \in DOMAIN results
        /\ results["Safety Stock PU"] = Num(2 * results["Standard PU per lot"].n)
        /\ (/\ base_params.lot_size = 1000
            /\ base_params.parts_per_pu = 10
            /\ base_params.working_days_per_week = 5
            /\ base_params.luf_days = 5) =>
               /\ results["Standard PU per lot"] = Num(100)
               /\ results["Daily Production Rate"] = Num(200)
               /\ results["Daily Standard PU need per LUF"] = Num(20)
               /\ results["Standard LUF need of PU"] = Num(100)
               /\ results["Safety Stock PU"] = Num(200)
               /\ results["Total Standard Packaging Units"] = Num(300)

\* the sweep has just returned (to the break-even step) or raised
JustSwept == steps = <<"sensitivity">> /\ pc \in {"break_even", "idle"}

\* a swept value on which calculate_capacity divides by zero
ZeroDivisor(field, value) ==
    value = 0 /\ field \in {"parts_per_pu", "working_days_per_week"}

\* C7: the sweep produces one total per value, in the order of the values
\* and with duplicates kept, each equal to the total standard packaging
\* units of calculate_capacity on the base parameters with only the varied
\* field replaced; an empty sequence of values gives an empty sequence and
\* no error.  (The sweep returns exactly when no value is a zero divisor.)
C7_SweepPointwise ==
    JustSwept =>
        /\ (pc = "break_even") <=>
              (\A i \in 1..Len(range_values) :
                  ~ZeroDivisor(param_to_analyze, range_values[i]))
        /\ (pc = "break_even") =>
              /\ err = NoErr
              /\ Len(sweep_results) = Len(range_values)
              /\ \A i \in 1..Len(range_values) :
                    sweep_results[i] =
                       calculate_capacity(
                          [base_params EXCEPT ![param_to_analyze] = range_values[i]]
                       ).value["Total Standard Packaging Units"]
        /\ (range_values = << >>) =>
              (pc = "break_even" /\ err = NoErr /\ sweep_results = << >>)

C7_Witness ==
    /\ JustSwept
    /\ pc = "break_even"
    /\ param_to_analyze = "parts_per_pu"
    /\ base_params.lot_size = 20
    /\ range_values = <<3, 3>>
    /\ sweep_results = <<Num(24), Num(24)>>

\* the run of the script has ended without an exception
RunCompleted == pc \in {"export", "idle"} /\ steps # << >> /\ err = NoErr

\* C8: after n executed appends the scenario list has exactly n entries, in
\* order, each the result of calculate_capacity on the parameters current at
\* that append, duplicates kept; a completed run in which the button fired
\* has appended exactly one entry, and no step other than the append changes
\* the list.
C8_Inv ==
    /\ Len(scenarios) = Len(added)
    /\ \A i \in 1..Len(scenarios) : scenarios[i] = calculate_capacity(added[i]).value
    /\ (RunCompleted /\ button) =>
          scenarios = Append(scenarios_before, calculate_capacity(base_params).value)
    /\ (RunCompleted /\ ~button) => scenarios = scenarios_before

C8_ScenarioStore ==
    /\ []C8_Inv
    /\ [][pc # "scenario" => scenarios' = scenarios]_vars

C8_Witness ==
    /\ RunCompleted
    /\ button
    /\ Len(scenarios) = 2
    /\ scenarios[1] = scenarios[2]

\* C9: the sensitivity sweep and the break-even sweep leave every field of
\* base_params as it was before the call.
C9_BaseParamsUnchanged ==
    [][(pc = "sensitivity" \/ pc = "break_even") => (base_params' = base_params)]_vars

C9_Witness ==
    /\ pc = "scenario"
    /\ steps = <<"sensitivity", "break_even">>
    /\ Len(sweep_results) = 2
    /\ range_values[2] # base_params[param_to_analyze]
    /\ Len(standard_costs) = 10
    /\ standard_costs[1] # standard_costs[10]

\* the steps of a run, in the order of the script
ExpectedSteps ==
    <<"compute", "range", "sensitivity">>
    \o (IF base_params.use_alternative THEN <<"break_even">> ELSE << >>)
    \o (IF button THEN <<"scenario">> ELSE << >>)

\* C10: the steps of one run execute in the order compute, sensitivity
\* sweep, break-even sweep (only with use_alternative), scenario append
\* (only when the button fired); when an earlier step fails (a zero step, or
\* a swept zero for parts_per_pu or working_days_per_week) the run stops
\* there and the scenario list is as it was before the run, button or not.
C10_RunOrderAndFailure ==
    /\ IsPrefix(steps, ExpectedSteps)
    /\ (err # NoErr) =>
          /\ pc = "idle"
          /\ scenarios = scenarios_before
          /\ \A i \in 1..Len(steps) : steps[i] # "scenario"
    /\ (pc = "idle" /\ steps # << >> /\ range_step = 0) =>
          (err = ValueError /\ steps = <<"compute", "range">>)
    /\ (pc = "idle" /\ steps # << >> /\ range_step # 0
          /\ range_min <= 0 /\ 0 <= range_max
          /\ param_to_analyze \in {"parts_per_pu", "working_days_per_week"}) =>
          (err = ZeroDivisionError /\ steps = <<"compute", "range", "sensitivity">>)
    /\ (pc = "idle" /\ steps # << >> /\ err = NoErr) => steps = ExpectedSteps

C10_Witness ==
    /\ pc = "idle"
    /\ button
    /\ err = ZeroDivisionError
    /\ steps = <<"compute", "range", "sensitivity">>
    /\ Len(scenarios_before) = 1
    /\ scenarios = scenarios_before

====
